---- MODULE Spec2Model ----
(***************************************************************************)
(* Model of the workspace-coordination subsystem                           *)
(* (invoice_mcp_server/infrastructure/git_sync.py, class GitSyncManager)   *)
(* together with the part of git it drives: branches, the shared checkout, *)
(* linked worktrees, the remote-tracking ref origin/main, merge state.     *)
(*                                                                         *)
(* Every coordinator handler runs without an await on anything that        *)
(* yields (subprocess.run blocks), so one handler is one atomic action.    *)
(* Each _run_git call inside a handler takes a boolean "ran": FALSE is the *)
(* except-branch of _run_git (timeout or spawn failure, no effect on the   *)
(* repository, triple (-1, "", reason)).                                   *)
(***************************************************************************)
EXTENDS Integers, Sequences, FiniteSets, TLC

\* ---------------------------------------------------------------- bounds
MaxUpstream == 1        \* commits other parties push to origin/main
MaxOwn      == 1        \* commits an agent makes on its own branch
MaxClock    == 1        \* ticks of the wall clock
MaxDepth    == 2        \* `async with acquire(...)` blocks a task nests

\* ---------------------------------------------------------------- inputs
AgentIds     == {"a1", "a2"}
Repos        == {"/P/r1", "/P/r2"}       \* two repositories in one directory
BaseBranches == {"main"}
TargetBranches == {"main"}
NoPath       == "None"                   \* _repo_path / _sync_dir unset
NoText       == "None"                   \* Python None for optional strings
Tasks        == {"t"}
Messages     == {"m"}

\* AgentStatus (Enum): member name -> value
AgentStatus == [IDLE |-> "idle", WORKING |-> "working", WAITING |-> "waiting",
                COMPLETED |-> "completed", ERROR |-> "error"]
UpdateStatuses == {"WORKING", "COMPLETED"}

\* ErrorCode members used by the coordinator
CONFIGURATION_ERROR == 1002
NOT_FOUND           == 2000
DATABASE_ERROR      == 4000
TIMEOUT_ERROR       == 5002
\* the errno of the FileNotFoundError that Path.write_text raises, which is
\* no InvoiceError and passes through the handlers
ENOENT              == 2
NoError             == 0

\* the tasks that use the LockManager and the resource names they lock
Workers   == {"w1", "w2"}
Resources == {"x", "y"}
\* the caller of a coordinator operation when no handler is executing
NoCaller  == "None"

VARIABLES
    repo_path,       \* GitSyncManager._repo_path (NoPath before set_repo_path)
    sync_dir,        \* GitSyncManager._sync_dir
    agents,          \* GitSyncManager._agents: agent_id -> AgentInfo
    sync_files,      \* sync directory -> (file name -> text of the file)
    sync_dirs,       \* the .agent_sync directories that exist
    branches,        \* repo -> (branch name -> head revision)
    checkout,        \* repo -> branch checked out in the shared checkout
    worktrees,       \* path -> linked worktree found at that path
    origin_main,     \* repo -> revision of the remote-tracking ref origin/main
    remote,          \* branch name -> head revision on the remote "origin"
    now,             \* datetime.now()
    last,            \* the last coordinator call and what it returned
    running,         \* the caller whose handler the event loop is executing
    _locks,          \* LockManager._locks: resource name -> asyncio.Lock
    frames,          \* worker -> its nested `async with acquire(...)` blocks
    outcome          \* how the last LockManager call to end ended

\* the state of the GitSyncManager and of what it works on
coordinator == <<repo_path, sync_dir, agents, sync_files, sync_dirs, branches,
                 checkout, worktrees, origin_main, remote, now, last>>
\* the state of the LockManager and of the tasks that use it
lock_manager == <<_locks, frames, outcome>>

vars == <<repo_path, sync_dir, agents, sync_files, sync_dirs, branches,
          checkout, worktrees, origin_main, remote, now, last,
          running, _locks, frames, outcome>>

\* ---------------------------------------------------------------- helpers
\* (mutation: an entry that exists is kept, not overwritten)
Put_keep(f, k, v) == IF k \in DOMAIN f THEN f
                     ELSE [x \in (DOMAIN f) \cup {k} |-> IF x = k THEN v ELSE f[x]]
\* d[k] = v on a dict, write_text on a directory: the entry is replaced
Put(f, k, v) == [x \in (DOMAIN f) \cup {k} |-> IF x = k THEN v ELSE f[x]]
Del(f, k)    == [x \in (DOMAIN f) \ {k} |-> f[x]]
EmptyMap     == [x \in {} |-> 0]

\* a line of tool output: the substrings the coordinator searches for are
\* kept as the line's tags, the rest of the text as its detail
Line(tags, detail) == [tags |-> tags, detail |-> detail]
\* Python `sub in text` over a multi-line text
In(sub, text) == \E i \in 1..Len(text) : sub \in text[i].tags

\* a revision: the upstream revision it contains and the number of commits
\* made on top of it on the branch
Rev(up, own) == [up |-> up, own |-> own]
NoMerge == -1

\* f"agent/{agent_id}"
BranchName(agent_id) == "agent/" \o agent_id
\* self._repo_path.parent / f"worktree_{agent_id}"
ParentOf(path) == "/P"
\* (mutation: the worktree is placed inside the repository)
WorktreePath_inside(repo, agent_id) == repo \o "/worktree_" \o agent_id
WorktreePath(repo, agent_id) == ParentOf(repo) \o "/worktree_" \o agent_id
\* self._repo_path / ".agent_sync"
SyncDirOf(repo) == repo \o "/.agent_sync"
SyncDirs == {SyncDirOf(r) : r \in Repos}
\* (mutation: one status file for all agents)
StatusFile_shared(agent_id) == "status.json"
\* self._sync_dir / f"{agent_id}.json"
StatusFile(agent_id) == agent_id \o ".json"

\* ------------------------------------------------------------------- git
\* The repository state the git commands act on, as one record.
GitState == [branches |-> branches, checkout |-> checkout,
             worktrees |-> worktrees, origin_main |-> origin_main,
             remote |-> remote]

\* what a command leaves behind: the repository state and the triple
\* (returncode, stdout, stderr) that subprocess.run hands back
Res(g, code, out, err) == [g |-> g, code |-> code, out |-> out, err |-> err]

\* the branches of repo r that some checkout holds
CheckedOut(g, r) ==
    {g.checkout[r]} \cup
    {g.worktrees[p].branch : p \in {q \in DOMAIN g.worktrees : g.worktrees[q].repo = r}}

\* git checkout -b <b> <base>      (cwd: the shared checkout of r)
GitCheckoutNew(g, r, b, base) ==
    IF base \notin DOMAIN g.branches[r]
    THEN Res(g, 128, <<>>, <<Line({}, "is not a commit and a branch cannot be created from it")>>)
    ELSE IF b \in DOMAIN g.branches[r]
    THEN Res(g, 128, <<>>, <<Line({"already exists"}, "fatal: a branch named")>>)
    ELSE Res([g EXCEPT !.branches[r] = Put(@, b, g.branches[r][base]),
                       !.checkout[r] = b],
             0, <<>>, <<Line({}, "Switched to a new branch")>>)

\* git checkout <b>                (cwd: the shared checkout of r)
GitCheckout(g, r, b) ==
    IF b \notin DOMAIN g.branches[r]
    THEN Res(g, 1, <<>>, <<Line({}, "error: pathspec did not match")>>)
    ELSE IF b = g.checkout[r]
    THEN Res(g, 0, <<>>, <<Line({}, "Already on")>>)
    ELSE IF b \in CheckedOut(g, r)
    THEN Res(g, 128, <<>>, <<Line({}, "fatal: is already checked out at")>>)
    ELSE Res([g EXCEPT !.checkout[r] = b], 0, <<>>, <<Line({}, "Switched to branch")>>)

\* git worktree add <path> <b>     (cwd: the shared checkout of r)
GitWorktreeAdd(g, r, path, b) ==
    IF b \notin DOMAIN g.branches[r]
    THEN Res(g, 128, <<>>, <<Line({}, "fatal: invalid reference")>>)
    ELSE IF path \in DOMAIN g.worktrees
    THEN Res(g, 128, <<>>, <<Line({"already exists"}, "fatal: path")>>)
    ELSE IF b \in CheckedOut(g, r)
    THEN Res(g, 128, <<>>, <<Line({}, "fatal: is already checked out at")>>)
    ELSE Res([g EXCEPT !.worktrees = Put(@, path,
                 [repo |-> r, branch |-> b, dirty |-> FALSE, staged |-> FALSE,
                  merge_head |-> NoMerge])],
             0, <<Line({}, "HEAD is now at")>>, <<Line({}, "Preparing worktree")>>)

\* (mutation: the branch of the worktree is deleted with it, the
\* `branch -D` that the coordinator has commented out)
GitWorktreeRemove_branch(g, r, path) ==
    IF path \in DOMAIN g.worktrees /\ g.worktrees[path].repo = r
    THEN Res([g EXCEPT !.worktrees = Del(@, path),
                       !.branches[r] = Del(@, g.worktrees[path].branch)], 0, <<>>, <<>>)
    ELSE Res(g, 128, <<>>, <<Line({}, "fatal: is not a working tree")>>)
\* git worktree remove <path> --force   (cwd: the shared checkout of r)
GitWorktreeRemove(g, r, path) ==
    IF path \in DOMAIN g.worktrees /\ g.worktrees[path].repo = r
    THEN Res([g EXCEPT !.worktrees = Del(@, path)], 0, <<>>, <<>>)
    ELSE Res(g, 128, <<>>, <<Line({}, "fatal: is not a working tree")>>)

\* the revision HEAD names in directory cwd
HeadOf(g, cwd) ==
    IF cwd \in DOMAIN g.worktrees
    THEN g.branches[g.worktrees[cwd].repo][g.worktrees[cwd].branch]
    ELSE g.branches[cwd][g.checkout[cwd]]

\* git rev-parse HEAD
GitRevParse(g, cwd) == Res(g, 0, <<Line({}, HeadOf(g, cwd))>>, <<>>)

\* git fetch origin                (cwd: a worktree)
GitFetch(g, cwd) ==
    Res([g EXCEPT !.origin_main[g.worktrees[cwd].repo] = g.remote["main"].up],
        0, <<>>, <<>>)

\* git merge [--no-commit --no-ff] origin/main     (cwd: a worktree)
\* All changes of the model touch one line of one file "f": a branch with
\* commits of its own conflicts with every newer upstream revision.
GitMerge(g, cwd, trial) ==
    LET w == g.worktrees[cwd]
        h == g.branches[w.repo][w.branch]
        t == g.origin_main[w.repo]
    IN  IF w.merge_head # NoMerge
        THEN Res(g, 128, <<>>, <<Line({}, "fatal: You have not concluded your merge")>>)
        ELSE IF t <= h.up
        THEN Res(g, 0, <<Line({}, "Already up to date.")>>, <<>>)
        ELSE IF w.dirty
        THEN Res(g, IF trial THEN 2 ELSE 1, <<>>,
                 <<Line({}, "error: Your local changes would be overwritten by merge")>>)
        ELSE IF h.own > 0
        THEN Res([g EXCEPT !.worktrees[cwd].merge_head = t], 1,
                 <<Line({}, "Auto-merging f"),
                   Line({"CONFLICT", "f"}, "(content): Merge conflict in"),
                   Line({}, "Automatic merge failed; fix conflicts")>>,
                 <<>>)
        ELSE IF trial
        THEN Res([g EXCEPT !.worktrees[cwd].merge_head = t], 0, <<>>,
                 <<Line({}, "Automatic merge went well; stopped before committing")>>)
        ELSE Res([g EXCEPT !.branches[w.repo][w.branch] = Rev(t, 0)], 0,
                 <<Line({}, "Fast-forward")>>, <<>>)

\* git merge --abort               (cwd: a worktree)
GitMergeAbort(g, cwd) ==
    IF g.worktrees[cwd].merge_head # NoMerge
    THEN Res([g EXCEPT !.worktrees[cwd].merge_head = NoMerge,
                       !.worktrees[cwd].staged = FALSE], 0, <<>>, <<>>)
    ELSE Res(g, 128, <<>>, <<Line({}, "fatal: There is no merge to abort")>>)

\* git add -A                      (cwd: a worktree)
\* stages the edits of the working tree and marks a conflict as resolved
GitAddAll(g, cwd) ==
    LET w == g.worktrees[cwd]
        h == g.branches[w.repo][w.branch]
    IN  Res([g EXCEPT !.worktrees[cwd].staged =
                          \/ w.staged
                          \/ w.dirty
                          \/ (w.merge_head # NoMerge /\ h.own > 0)],
            0, <<>>, <<>>)

\* git commit -m <message>         (cwd: a worktree)
GitCommit(g, cwd) ==
    LET w == g.worktrees[cwd]
        h == g.branches[w.repo][w.branch]
    IN  IF w.merge_head # NoMerge /\ h.own > 0 /\ ~w.staged
        THEN Res(g, 128, <<Line({}, "U f")>>,
                 <<Line({}, "error: Committing is not possible because you have unmerged files.")>>)
        ELSE IF w.merge_head # NoMerge
        THEN Res([g EXCEPT !.branches[w.repo][w.branch] =
                               Rev(w.merge_head, IF h.own > 0 THEN h.own + 1 ELSE 0),
                           !.worktrees[cwd].merge_head = NoMerge,
                           !.worktrees[cwd].staged = FALSE,
                           !.worktrees[cwd].dirty = FALSE],
                 0, <<Line({}, "commit")>>, <<>>)
        ELSE IF w.staged
        THEN Res([g EXCEPT !.branches[w.repo][w.branch] = Rev(h.up, h.own + 1),
                           !.worktrees[cwd].staged = FALSE,
                           !.worktrees[cwd].dirty = FALSE],
                 0, <<Line({}, "commit")>>, <<>>)
        ELSE IF w.dirty
        THEN Res(g, 1, <<Line({}, "no changes added to commit")>>, <<>>)
        ELSE Res(g, 1, <<Line({"nothing to commit"}, "working tree clean")>>, <<>>)

\* is revision x contained in revision y
Contained(x, y) == x.up <= y.up /\ x.own <= y.own

\* git push -u origin <b>          (cwd: a worktree)
GitPush(g, cwd, b) ==
    LET r == g.worktrees[cwd].repo
    IN  IF b \notin DOMAIN g.branches[r]
        THEN Res(g, 1, <<>>, <<Line({}, "error: src refspec does not match any")>>)
        ELSE IF b \in DOMAIN g.remote /\ ~Contained(g.remote[b], g.branches[r][b])
        THEN Res(g, 1, <<>>, <<Line({}, "! [rejected] (non-fast-forward)")>>)
        ELSE Res([g EXCEPT !.remote = Put(@, b, g.branches[r][b])], 0, <<>>,
                 <<Line({}, "set up to track")>>)

\* the external tool: the command named by args, run in directory cwd
Git(g, args, cwd) ==
    CASE args[1] = "checkout" /\ args[2] = "-b" -> GitCheckoutNew(g, cwd, args[3], args[4])
      [] args[1] = "checkout" /\ args[2] # "-b" -> GitCheckout(g, cwd, args[2])
      [] args[1] = "worktree" /\ args[2] = "add" -> GitWorktreeAdd(g, cwd, args[3], args[4])
      [] args[1] = "worktree" /\ args[2] = "remove" -> GitWorktreeRemove(g, cwd, args[3])
      [] args[1] = "rev-parse" -> GitRevParse(g, cwd)
      [] args[1] = "fetch" -> GitFetch(g, cwd)
      [] args[1] = "merge" /\ args[2] = "--abort" -> GitMergeAbort(g, cwd)
      [] args[1] = "merge" /\ args[2] = "--no-commit" -> GitMerge(g, cwd, TRUE)
      [] args[1] = "merge" /\ args[2] \notin {"--abort", "--no-commit"} -> GitMerge(g, cwd, FALSE)
      [] args[1] = "add" -> GitAddAll(g, cwd)
      [] args[1] = "commit" -> GitCommit(g, cwd)
      [] args[1] = "push" -> GitPush(g, cwd, args[4])

\* (mutation: a timeout is reported with the exit code 1 of a failed command)
_run_git_positive(g, args, cwd, ran) ==
    IF ran /\ (cwd \in Repos \/ cwd \in DOMAIN g.worktrees)
    THEN Git(g, args, cwd)
    ELSE Res(g, 1, <<>>, <<Line({}, "Command timed out")>>)
\* GitSyncManager._run_git: run the command, or (timeout, spawn failure)
\* return the sentinel triple
_run_git(g, args, cwd, ran) ==
    IF ran /\ (cwd \in Repos \/ cwd \in DOMAIN g.worktrees)
    THEN Git(g, args, cwd)
    ELSE Res(g, -1, <<>>, <<Line({}, "Command timed out")>>)

\* ----------------------------------------------------------- coordinator
NoTime == -1                     \* last_sync: datetime | None = None
NoHash == <<>>                   \* last_commit: str | None = None

\* json.dumps / json.loads: a text is either the rendering of an object or
\* something json.loads raises on
json_dumps(obj) == [json |-> TRUE, obj |-> <<obj>>]
Garbage         == [json |-> FALSE, obj |-> <<>>]
json_loads(text) == text.obj[1]

\* the record of the last coordinator call: the operation, its agent_id,
\* the ErrorCode of the InvoiceError it raised (NoError: it returned), a
\* boolean return value, a list-like return value, and whether the call
\* is the second of two consecutive remove_agent_workspace calls for one
\* agent_id
Call(op, agent_id, error, flag, ret) ==
    [op |-> op, agent_id |-> agent_id, error |-> error, flag |-> flag, ret |-> ret,
     again |-> (op = "remove_agent_workspace" /\ last.op = op
                   /\ last.agent_id = agent_id)]

\* AgentInfo(agent_id, branch_name, worktree_path, status=IDLE,
\*           last_sync=None, current_task=None)
AgentInfo(agent_id, branch_name, worktree_path, status) ==
    [agent_id |-> agent_id, branch_name |-> branch_name,
     worktree_path |-> worktree_path, status |-> status,
     last_sync |-> NoTime, current_task |-> NoText]

\* status_file.write_text raises: the sync directory is configured and is
\* not on disk
WriteFails == sync_dir # NoPath /\ sync_dir \notin sync_dirs

\* (mutation: the status file is not written)
_write_status_skipped(g, agent_info, message, ran) == sync_files
\* GitSyncManager._write_status: the sync files after the write (the
\* function returns at once while _sync_dir is unset)
_write_status(g, agent_info, message, ran) ==
    IF sync_dir = NoPath THEN sync_files
    ELSE
    LET cwd  == IF agent_info.worktree_path \in DOMAIN g.worktrees
                THEN agent_info.worktree_path ELSE repo_path
        r    == _run_git(g, <<"rev-parse", "HEAD">>, cwd, ran)
        status == [agent_id |-> agent_info.agent_id,
                   status |-> agent_info.status,
                   branch |-> agent_info.branch_name,
                   last_commit |-> IF r.code = 0 THEN r.out ELSE NoHash,
                   timestamp |-> now,
                   message |-> message]
        text == json_dumps([agent_id |-> status.agent_id,
                            status |-> AgentStatus[status.status],
                            branch |-> status.branch,
                            last_commit |-> status.last_commit,
                            timestamp |-> status.timestamp,
                            message |-> status.message])
    IN  [sync_files EXCEPT ![sync_dir] = Put(@, StatusFile(agent_info.agent_id), text)]

\* the git part of the state after a handler
SetGit(g) ==
    /\ branches' = g.branches
    /\ checkout' = g.checkout
    /\ worktrees' = g.worktrees
    /\ origin_main' = g.origin_main
    /\ remote' = g.remote

\* GitSyncManager.set_repo_path
set_repo_path(path) ==
    /\ repo_path' = path
    /\ sync_dir' = SyncDirOf(path)
    /\ sync_dirs' = sync_dirs \cup {SyncDirOf(path)}
    /\ last' = Call("set_repo_path", "", NoError, FALSE, <<>>)
    /\ UNCHANGED <<agents, sync_files, branches, checkout, worktrees,
                   origin_main, remote, now, running, lock_manager>>

\* (mutation: the check of the repository path is missing)
NotConfigured_unchecked == FALSE
\* `if not self._repo_path`
NotConfigured == repo_path = NoPath

\* (mutation: `if code > 0`, which takes the sentinel -1 for a success)
AddFailed_positive(exists, code) == ~exists /\ code > 0
\* `if not worktree_path.exists()` ... `if code != 0`: the worktree had to
\* be added and the command failed
AddFailed(exists, code) == ~exists /\ code # 0

\* GitSyncManager.create_agent_workspace; ran[i] tells whether the i-th
\* _run_git call of the handler ran
create_agent_workspace(agent_id, base_branch, ran) ==
    IF NotConfigured
    THEN /\ last' = Call("create_agent_workspace", agent_id, CONFIGURATION_ERROR, FALSE, <<>>)
         /\ UNCHANGED <<repo_path, sync_dir, agents, sync_files, sync_dirs, branches,
                        checkout, worktrees, origin_main, remote, now, running, lock_manager>>
    ELSE
    LET branch_name   == BranchName(agent_id)
        worktree_path == WorktreePath(repo_path, agent_id)
        r1 == _run_git(GitState, <<"checkout", "-b", branch_name, base_branch>>,
                       repo_path, ran[1])
        g2 == IF r1.code # 0 /\ ~In("already exists", r1.err)
              THEN _run_git(r1.g, <<"checkout", branch_name>>, repo_path, ran[2]).g
              ELSE r1.g
        g3 == _run_git(g2, <<"checkout", base_branch>>, repo_path, ran[3]).g
        exists == worktree_path \in DOMAIN g3.worktrees
        r4 == _run_git(g3, <<"worktree", "add", worktree_path, branch_name>>,
                       repo_path, ran[4])
        agent_info == AgentInfo(agent_id, branch_name, worktree_path, "IDLE")
    IN  IF AddFailed(exists, r4.code)
        THEN /\ SetGit(g3)
             /\ last' = Call("create_agent_workspace", agent_id, DATABASE_ERROR, FALSE, <<>>)
             /\ UNCHANGED <<repo_path, sync_dir, agents, sync_files, sync_dirs, now,
                            running, lock_manager>>
        ELSE LET g4 == IF exists THEN g3 ELSE r4.g
             IN  /\ SetGit(g4)
                 /\ agents' = Put(agents, agent_id, agent_info)
                 /\ IF WriteFails
                    THEN /\ sync_files' = sync_files
                         /\ last' = Call("create_agent_workspace", agent_id, ENOENT,
                                         FALSE, <<>>)
                    ELSE /\ sync_files' = _write_status(g4, agent_info, NoText, ran[5])
                         /\ last' = Call("create_agent_workspace", agent_id, NoError,
                                         FALSE, <<agent_info>>)
                 /\ UNCHANGED <<repo_path, sync_dir, sync_dirs, now, running, lock_manager>>

\* (mutation: the status file is not removed)
Unlink_skipped(files, dir, name) == files
\* `if status_file.exists(): status_file.unlink()`
Unlink(files, dir, name) == [files EXCEPT ![dir] = Del(@, name)]

\* GitSyncManager.remove_agent_workspace
remove_agent_workspace(agent_id, ran) ==
    IF agent_id \notin DOMAIN agents
    THEN /\ last' = Call("remove_agent_workspace", agent_id, NoError, FALSE, <<>>)
         /\ UNCHANGED <<repo_path, sync_dir, agents, sync_files, sync_dirs, branches,
                        checkout, worktrees, origin_main, remote, now, running, lock_manager>>
    ELSE
    LET agent_info == agents[agent_id]
        r1 == _run_git(GitState, <<"worktree", "remove", agent_info.worktree_path, "--force">>,
                       repo_path, ran)
    IN  /\ SetGit(r1.g)
        /\ sync_files' = IF sync_dir # NoPath
                         THEN Unlink(sync_files, sync_dir, StatusFile(agent_id))
                         ELSE sync_files
        /\ agents' = Del(agents, agent_id)
        /\ last' = Call("remove_agent_workspace", agent_id, NoError, FALSE, <<>>)
        /\ UNCHANGED <<repo_path, sync_dir, sync_dirs, now, running, lock_manager>>

\* GitSyncManager.update_agent_status
update_agent_status(agent_id, status, task, message, ran) ==
    IF agent_id \notin DOMAIN agents
    THEN /\ last' = Call("update_agent_status", agent_id, NOT_FOUND, FALSE, <<>>)
         /\ UNCHANGED <<repo_path, sync_dir, agents, sync_files, sync_dirs, branches,
                        checkout, worktrees, origin_main, remote, now, running, lock_manager>>
    ELSE
    LET agent_info == [agents[agent_id] EXCEPT !.status = status,
                                               !.current_task = task,
                                               !.last_sync = now]
    IN  /\ agents' = [agents EXCEPT ![agent_id] = agent_info]
        /\ IF WriteFails
           THEN /\ sync_files' = sync_files
                /\ last' = Call("update_agent_status", agent_id, ENOENT, FALSE, <<>>)
           ELSE /\ sync_files' = _write_status(GitState, agent_info, message, ran)
                /\ last' = Call("update_agent_status", agent_id, NoError, FALSE, <<>>)
        /\ UNCHANGED <<repo_path, sync_dir, sync_dirs, branches, checkout, worktrees,
                       origin_main, remote, now, running, lock_manager>>

\* the elements of a finite set of strings, in some order (glob order)
RECURSIVE Listing(_)
Listing(S) == IF S = {} THEN <<>>
              ELSE LET x == CHOOSE y \in S : TRUE IN <<x>> \o Listing(S \ {x})

\* the body of the loop of get_all_agent_statuses over the listed files:
\* a file json.loads raises on is skipped
RECURSIVE ReadStatuses(_, _)
ReadStatuses(dir, names) ==
    IF names = <<>> THEN <<>>
    ELSE LET text == sync_files[dir][Head(names)]
         IN  (IF text.json THEN <<json_loads(text)>> ELSE <<>>)
             \o ReadStatuses(dir, Tail(names))

\* (mutation: no try/except around json.loads, the exception of the first
\* damaged file ends the call)
get_all_agent_statuses_unguarded ==
    /\ last' = IF sync_dir = NoPath \/ sync_dir \notin sync_dirs
               THEN Call("get_all_agent_statuses", "", NoError, FALSE, <<>>)
               ELSE IF \E n \in DOMAIN sync_files[sync_dir] : ~sync_files[sync_dir][n].json
               THEN Call("get_all_agent_statuses", "", 1, FALSE, <<>>)
               ELSE Call("get_all_agent_statuses", "", NoError, FALSE,
                         ReadStatuses(sync_dir, Listing(DOMAIN sync_files[sync_dir])))
    /\ UNCHANGED <<repo_path, sync_dir, agents, sync_files, sync_dirs, branches,
                   checkout, worktrees, origin_main, remote, now, running, lock_manager>>
\* GitSyncManager.get_all_agent_statuses
get_all_agent_statuses ==
    /\ last' = Call("get_all_agent_statuses", "", NoError, FALSE,
                    IF sync_dir = NoPath \/ sync_dir \notin sync_dirs THEN <<>>
                    ELSE ReadStatuses(sync_dir, Listing(DOMAIN sync_files[sync_dir])))
    /\ UNCHANGED <<repo_path, sync_dir, agents, sync_files, sync_dirs, branches,
                   checkout, worktrees, origin_main, remote, now, running, lock_manager>>

\* the early returns shared by the handlers that work in the worktree:
\* `agent_id not in self._agents` and `not worktree.exists()`
NoWorktree(agent_id) ==
    \/ agent_id \notin DOMAIN agents
    \/ agents[agent_id].worktree_path \notin DOMAIN worktrees

\* (mutation: the early return hands back True)
Returns_true(op, agent_id, flag, ret) ==
    /\ last' = Call(op, agent_id, NoError, TRUE, ret)
    /\ UNCHANGED <<repo_path, sync_dir, agents, sync_files, sync_dirs, branches,
                   checkout, worktrees, origin_main, remote, now, running, lock_manager>>
\* a handler that returns without having touched anything
Returns(op, agent_id, flag, ret) ==
    /\ last' = Call(op, agent_id, NoError, flag, ret)
    /\ UNCHANGED <<repo_path, sync_dir, agents, sync_files, sync_dirs, branches,
                   checkout, worktrees, origin_main, remote, now, running, lock_manager>>

\* (mutation: the handler publishes the head of the worktree in the agent's
\* status record before it returns)
ReturnsGit_published(op, agent_id, flag, ret, g) ==
    /\ last' = Call(op, agent_id, NoError, flag, ret)
    /\ SetGit(g)
    /\ sync_files' = _write_status(g, agents[agent_id], NoText, TRUE)
    /\ UNCHANGED <<repo_path, sync_dir, agents, sync_dirs, now, running, lock_manager>>
\* a handler that returns having run git commands only
ReturnsGit(op, agent_id, flag, ret, g) ==
    /\ last' = Call(op, agent_id, NoError, flag, ret)
    /\ SetGit(g)
    /\ UNCHANGED <<repo_path, sync_dir, agents, sync_files, sync_dirs, now, running, lock_manager>>

\* GitSyncManager.sync_from_main
sync_from_main(agent_id, ran) ==
    IF NoWorktree(agent_id) THEN Returns("sync_from_main", agent_id, FALSE, <<>>)
    ELSE
    LET worktree == agents[agent_id].worktree_path
        g1 == _run_git(GitState, <<"fetch", "origin">>, worktree, ran[1]).g
        r2 == _run_git(g1, <<"merge", "origin/main">>, worktree, ran[2])
    IN  ReturnsGit("sync_from_main", agent_id, r2.code = 0, <<>>, r2.g)

\* GitSyncManager.commit_agent_work
commit_agent_work(agent_id, ran) ==
    IF NoWorktree(agent_id) THEN Returns("commit_agent_work", agent_id, FALSE, NoHash)
    ELSE
    LET worktree == agents[agent_id].worktree_path
        g1 == _run_git(GitState, <<"add", "-A">>, worktree, ran[1]).g
        r2 == _run_git(g1, <<"commit", "-m", "[Agent] message">>, worktree, ran[2])
        r3 == _run_git(r2.g, <<"rev-parse", "HEAD">>, worktree, ran[3])
    IN  IF r2.code # 0
        THEN ReturnsGit("commit_agent_work", agent_id, FALSE, NoHash, r2.g)
        ELSE ReturnsGit("commit_agent_work", agent_id, FALSE,
                        IF r3.code = 0 THEN r3.out ELSE NoHash, r3.g)

\* GitSyncManager.push_agent_work
push_agent_work(agent_id, ran) ==
    IF NoWorktree(agent_id) THEN Returns("push_agent_work", agent_id, FALSE, <<>>)
    ELSE
    LET worktree == agents[agent_id].worktree_path
        r1 == _run_git(GitState, <<"push", "-u", "origin", agents[agent_id].branch_name>>,
                       worktree, ran)
    IN  ReturnsGit("push_agent_work", agent_id, r1.code = 0, <<>>, r1.g)

\* GitSyncManager.check_conflicts
check_conflicts(agent_id, target_branch, ran) ==
    IF NoWorktree(agent_id) THEN Returns("check_conflicts", agent_id, FALSE, <<>>)
    ELSE
    LET worktree == agents[agent_id].worktree_path
        g1 == _run_git(GitState, <<"fetch", "origin">>, worktree, ran[1]).g
        r2 == _run_git(g1, <<"merge", "--no-commit", "--no-ff", "origin/" \o target_branch>>,
                       worktree, ran[2])
        g3 == _run_git(r2.g, <<"merge", "--abort">>, worktree, ran[3]).g
        conflicts == SelectSeq(r2.err, LAMBDA line : "CONFLICT" \in line.tags)
    IN  IF r2.code # 0 /\ In("CONFLICT", r2.err)
        THEN ReturnsGit("check_conflicts", agent_id, FALSE, conflicts, g3)
        ELSE ReturnsGit("check_conflicts", agent_id, FALSE, <<>>, g3)

\* list(self._agents.values())
AgentList == [i \in 1..Cardinality(DOMAIN agents) |-> agents[Listing(DOMAIN agents)[i]]]

\* GitSyncManager.list_agents
list_agents == Returns("list_agents", "", FALSE, AgentList)

\* GitSyncManager.reset followed by GitSyncManager(): a fresh instance
\* (__init__), as after a restart of the process
reset ==
    /\ repo_path' = NoPath
    /\ sync_dir' = NoPath
    /\ agents' = EmptyMap
    /\ last' = Call("reset", "", NoError, FALSE, <<>>)
    /\ UNCHANGED <<sync_files, sync_dirs, branches, checkout, worktrees,
                   origin_main, remote, now, running, lock_manager>>

\* ----------------------------------------------------------- lock manager
\* asyncio.Lock(): unlocked, nobody waiting; woken holds the waiters whose
\* future has a result and who have not run since
NewLock == [locked |-> FALSE, waiters |-> <<>>, woken |-> {}]

\* deque.remove
Remove(seq, x) == SelectSeq(seq, LAMBDA y : y # x)

\* asyncio.Lock._wake_up_first: the first waiter's future gets its result
_wake_up_first(lock) ==
    IF lock.waiters = <<>> THEN lock
    ELSE [lock EXCEPT !.woken = @ \cup {Head(lock.waiters)}]

\* asyncio.Lock.release, which does not ask who holds the lock
LockRelease(lock) == _wake_up_first([lock EXCEPT !.locked = FALSE])

\* LockManager._get_lock: _locks after the call (the lock is _locks[name]);
\* _global_lock is free whenever a task gets here, its holder never awaits
_get_lock(name) ==
    IF name \in DOMAIN _locks THEN _locks ELSE Put(_locks, name, NewLock)

\* `finally: if lock.locked(): lock.release()`
Finally(lock) == IF lock.locked THEN LockRelease(lock) ELSE lock

\* the innermost `async with` block of a worker, and whether the worker is
\* running code of its own (it is not suspended in an acquire)
Top(w)    == frames[w][Len(frames[w])]
Active(w) == IF frames[w] = <<>> THEN TRUE ELSE Top(w).pc = "body"
Enter(w, name, pc) == [frames EXCEPT ![w] = Append(@, [name |-> name, pc |-> pc])]
Leave(w)  == [frames EXCEPT ![w] = SubSeq(@, 1, Len(@) - 1)]
At(w, pc) == [frames EXCEPT ![w][Len(frames[w])].pc = pc]

\* how a call of the LockManager ended: the exception that left it (its
\* class and, for an InvoiceError, its code), whether the body of the
\* `async with` had been entered, and the value is_locked returned
Outcome(w, op, name, raised, code, entered, ret) ==
    [worker |-> w, op |-> op, name |-> name, raised |-> raised, code |-> code,
     entered |-> entered, ret |-> ret]

\* LockManager.acquire up to the first suspension: _get_lock, then
\* asyncio.Lock.acquire, which takes a free lock nobody waits for and
\* otherwise queues a future
acquire(w, resource_name) ==
    /\ Active(w)
    /\ Len(frames[w]) < MaxDepth
    /\ LET locks == _get_lock(resource_name)
           lock  == locks[resource_name]
       IN  IF ~lock.locked /\ lock.waiters = <<>>
           THEN /\ _locks' = [locks EXCEPT ![resource_name].locked = TRUE]
                /\ frames' = Enter(w, resource_name, "body")
           ELSE /\ _locks' = [locks EXCEPT ![resource_name].waiters = Append(@, w)]
                /\ frames' = Enter(w, resource_name, "waiting")
    /\ UNCHANGED <<coordinator, running, outcome>>

\* the waiter's future has its result: asyncio.Lock.acquire leaves the
\* queue, sets _locked and returns True, wait_for returns, the body starts
acquire_granted(w) ==
    /\ frames[w] # <<>> /\ Top(w).pc = "waiting"
    /\ w \in _locks[Top(w).name].woken
    /\ _locks' = [_locks EXCEPT ![Top(w).name] =
                     [locked |-> TRUE, waiters |-> Remove(@.waiters, w),
                      woken |-> @.woken \ {w}]]
    /\ frames' = At(w, "body")
    /\ UNCHANGED <<coordinator, running, outcome>>

\* (mutation: wait_for without a timeout, the wait ends only by a grant)
acquire_timeout_never(w) ==
    /\ FALSE
    /\ UNCHANGED vars

\* the timeout of wait_for passes: asyncio.Lock.acquire is cancelled, leaves
\* the queue and, the lock being free, hands the wake-up on; wait_for
\* raises asyncio.TimeoutError
acquire_timeout(w) ==
    /\ frames[w] # <<>> /\ Top(w).pc = "waiting"
    /\ LET lock == [_locks[Top(w).name] EXCEPT !.waiters = Remove(@, w),
                                               !.woken = @ \ {w}]
       IN  _locks' = [_locks EXCEPT ![Top(w).name] =
                         IF ~lock.locked THEN _wake_up_first(lock) ELSE lock]
    /\ frames' = At(w, "timed_out")
    /\ UNCHANGED <<coordinator, running, outcome>>

\* (mutation: the timeout is swallowed and the body runs without the lock)
acquire_unwind_swallowed(w) ==
    /\ frames[w] # <<>> /\ Top(w).pc = "timed_out"
    /\ frames' = At(w, "body")
    /\ UNCHANGED <<coordinator, running, _locks, outcome>>

\* `except asyncio.TimeoutError: raise InvoiceError(TIMEOUT_ERROR)`, then
\* the `finally` clause
acquire_unwind(w) ==
    /\ frames[w] # <<>> /\ Top(w).pc = "timed_out"
    /\ _locks' = [_locks EXCEPT ![Top(w).name] = Finally(@)]
    /\ frames' = Leave(w)
    /\ outcome' = Outcome(w, "acquire", Top(w).name, "InvoiceError", TIMEOUT_ERROR,
                          FALSE, FALSE)
    /\ UNCHANGED <<coordinator, running>>

\* the ways the body of an `async with acquire(...)` block ends
Exits == {"return", "ValueError", "TimeoutError"}

\* the body ends, by running to its end or by an exception thrown into the
\* generator at `yield`: an asyncio.TimeoutError is turned into the
\* InvoiceError, any other exception passes; then the `finally` clause
acquire_exit(w, how) ==
    /\ frames[w] # <<>> /\ Top(w).pc = "body"
    /\ _locks' = [_locks EXCEPT ![Top(w).name] = Finally(@)]
    /\ frames' = Leave(w)
    /\ outcome' = CASE how = "return" ->
                           Outcome(w, "acquire", Top(w).name, "None", NoError, TRUE, FALSE)
                    [] how = "TimeoutError" ->
                           Outcome(w, "acquire", Top(w).name, "InvoiceError", TIMEOUT_ERROR,
                                   TRUE, FALSE)
                    [] OTHER ->
                           Outcome(w, "acquire", Top(w).name, how, NoError, TRUE, FALSE)
    /\ UNCHANGED <<coordinator, running>>

\* LockManager.is_locked
is_locked(w, resource_name) ==
    /\ Active(w)
    /\ _locks' = _get_lock(resource_name)
    /\ outcome' = Outcome(w, "is_locked", resource_name, "None", NoError, FALSE,
                          _get_lock(resource_name)[resource_name].locked)
    /\ UNCHANGED <<coordinator, running, frames>>

\* ------------------------------------------------------------ environment
\* somebody else pushes a change of file f to origin/main
UpstreamPush ==
    /\ remote["main"].up < MaxUpstream
    /\ remote' = [remote EXCEPT !["main"] = Rev(@.up + 1, 0)]
    /\ UNCHANGED <<repo_path, sync_dir, agents, sync_files, sync_dirs, branches,
                   checkout, worktrees, origin_main, now, last, running, lock_manager>>

\* an agent edits file f in its worktree
AgentEdit(path) ==
    /\ path \in DOMAIN worktrees
    /\ worktrees[path].merge_head = NoMerge
    /\ ~worktrees[path].dirty
    /\ branches[worktrees[path].repo][worktrees[path].branch].own < MaxOwn
    /\ worktrees' = [worktrees EXCEPT ![path].dirty = TRUE]
    /\ UNCHANGED <<repo_path, sync_dir, agents, sync_files, sync_dirs, branches,
                   checkout, origin_main, remote, now, last, running, lock_manager>>

\* time passes
Tick ==
    /\ now < MaxClock
    /\ now' = now + 1
    /\ UNCHANGED <<repo_path, sync_dir, agents, sync_files, sync_dirs, branches,
                   checkout, worktrees, origin_main, remote, last, running, lock_manager>>

\* a status file is left with content json.loads raises on (a writer that
\* crashed in write_text, another program writing into the directory)
Corrupt(dir, name) ==
    /\ dir \in sync_dirs
    /\ name \in DOMAIN sync_files[dir]
    /\ sync_files[dir][name].json
    /\ sync_files' = [sync_files EXCEPT ![dir][name] = Garbage]
    /\ UNCHANGED <<repo_path, sync_dir, agents, sync_dirs, branches, checkout,
                   worktrees, origin_main, remote, now, last, running, lock_manager>>

\* a sync directory is deleted with its files (it is an untracked directory
\* inside the repository: `git clean -fd`, a cleanup script, another agent)
SyncDirRemoved(dir) ==
    /\ dir \in sync_dirs
    /\ sync_dirs' = sync_dirs \ {dir}
    /\ sync_files' = [sync_files EXCEPT ![dir] = EmptyMap]
    /\ UNCHANGED <<repo_path, sync_dir, agents, branches, checkout, worktrees,
                   origin_main, remote, now, last, running, lock_manager>>

\* ------------------------------------------------------------------ spec
\* GitSyncManager.__init__ on two freshly cloned repositories
Init ==
    /\ repo_path = NoPath
    /\ sync_dir = NoPath
    /\ agents = EmptyMap
    /\ sync_files = [d \in SyncDirs |-> EmptyMap]
    /\ sync_dirs = {}
    /\ branches = [r \in Repos |-> [b \in {"main"} |-> Rev(0, 0)]]
    /\ checkout = [r \in Repos |-> "main"]
    /\ worktrees = EmptyMap
    /\ origin_main = [r \in Repos |-> 0]
    /\ remote = [b \in {"main"} |-> Rev(0, 0)]
    /\ now = 0
    /\ last = [op |-> "__init__", agent_id |-> "", error |-> NoError, flag |-> FALSE,
               ret |-> <<>>, again |-> FALSE]
    /\ running = NoCaller
    /\ _locks = EmptyMap
    /\ frames = [w \in Workers |-> <<>>]
    /\ outcome = Outcome("", "", "", "None", NoError, FALSE, FALSE)

\* the coordinator's operations on workspaces and status records, called
\* for the agents A on the repositories R, with the statuses S given to
\* update_agent_status
Lifecycle(A, R, S) ==
    \/ \E path \in R : set_repo_path(path)
    \/ \E a \in A, b \in BaseBranches, ran \in [1..5 -> BOOLEAN] :
          create_agent_workspace(a, b, ran)
    \/ \E a \in A, ran \in BOOLEAN : remove_agent_workspace(a, ran)
    \/ \E a \in A, s \in S, t \in Tasks, m \in Messages, ran \in BOOLEAN :
          update_agent_status(a, s, t, m, ran)
    \/ get_all_agent_statuses

\* all of the coordinator's operations
Coordinator(A, R, S) ==
    \/ Lifecycle(A, R, S)
    \/ \E a \in A, ran \in [1..2 -> BOOLEAN] : sync_from_main(a, ran)
    \/ \E a \in A, ran \in [1..3 -> BOOLEAN] : commit_agent_work(a, ran)
    \/ \E a \in A, ran \in BOOLEAN : push_agent_work(a, ran)
    \/ \E a \in A, t \in TargetBranches, ran \in [1..3 -> BOOLEAN] :
          check_conflicts(a, t, ran)
    \/ list_agents

\* the agents at work and the other users of the remote
Environment(A, R) ==
    \/ UpstreamPush
    \/ \E a \in A, r \in R : AgentEdit(WorktreePath(r, a))

\* Workspace lifecycle: one agent, every repository, restarts; nobody
\* edits files.
Next ==
    \/ Coordinator({"a1"}, Repos, {"WORKING"})
    \/ reset

Spec == Init /\ [][Next]_vars

\* Work in one repository: one agent edits, others push upstream.
NextWork ==
    \/ Coordinator({"a1"}, {"/P/r1"}, {"WORKING"})
    \/ Environment({"a1"}, {"/P/r1"})

SpecWork == Init /\ [][NextWork]_vars

\* Status records: two agents in one repository, the clock, damaged files.
NextStatus ==
    \/ Lifecycle(AgentIds, {"/P/r1"}, UpdateStatuses)
    \/ Tick
    \/ \E a \in AgentIds : Corrupt(SyncDirOf("/P/r1"), StatusFile(a))

SpecStatus == Init /\ [][NextStatus]_vars

\* Two agents side by side in one repository.
NextAgents == Coordinator(AgentIds, {"/P/r1"}, {"WORKING"})

SpecAgents == Init /\ [][NextAgents]_vars

\* Publishing work: one agent edits, commits and pushes; nobody else pushes.
NextPublish ==
    \/ Coordinator({"a1"}, {"/P/r1"}, {"WORKING"})
    \/ AgentEdit(WorktreePath("/P/r1", "a1"))

SpecPublish == Init /\ [][NextPublish]_vars

\* The status store on disk: two agents in one repository whose sync
\* directory can be deleted.
NextStore ==
    \/ Lifecycle(AgentIds, {"/P/r1"}, {"WORKING"})
    \/ SyncDirRemoved(SyncDirOf("/P/r1"))

SpecStore == Init /\ [][NextStore]_vars

\* the event loop resumes the task of a caller: no other task is executing
Resume(a) ==
    /\ running = NoCaller
    /\ running' = a
    /\ UNCHANGED <<coordinator, lock_manager>>

\* the task the event loop is executing calls an operation for its agent:
\* the `async def` handlers await nothing that suspends, and _run_git waits
\* for git inside subprocess.run on the thread of the event loop, so the
\* operation runs from its call to its return inside this one task step
Serve(a) ==
    /\ running = a
    /\ Lifecycle({a}, {"/P/r1"}, {"WORKING"})

\* the executing task finishes or awaits something that suspends: control
\* is back in the event loop
Suspend ==
    /\ running # NoCaller
    /\ running' = NoCaller
    /\ UNCHANGED <<coordinator, lock_manager>>

\* Scheduling: the tasks of two callers on one event loop.
NextBlocking ==
    \/ \E a \in AgentIds : Resume(a)
    \/ \E a \in AgentIds : Serve(a)
    \/ Suspend

SpecBlocking == Init /\ [][NextBlocking]_vars

\* The lock manager: tasks that lock resource names, nested up to MaxDepth.
NextLock ==
    \/ \E w \in Workers, n \in Resources : acquire(w, n)
    \/ \E w \in Workers : acquire_granted(w)
    \/ \E w \in Workers : acquire_timeout(w)
    \/ \E w \in Workers : acquire_unwind(w)
    \/ \E w \in Workers, how \in Exits : acquire_exit(w, how)
    \/ \E w \in Workers, n \in Resources : is_locked(w, n)

SpecLock == Init /\ [][NextLock]_vars

\* The event loop runs every task that is ready and every timer that is
\* due: a woken waiter resumes, a timeout passes, a handler is run.
SpecLockFair ==
    /\ SpecLock
    /\ \A w \in Workers :
          /\ WF_vars(acquire_granted(w))
          /\ WF_vars(acquire_timeout(w))
          /\ WF_vars(acquire_unwind(w))

\* ---------------------------------------------------------------- claims
\* the steps that are calls of one operation
\* (the test of last' comes first: it is cheap and fails for most steps)
Called(op, a) == last'.op = op /\ last'.agent_id = a
CheckConflictsStep(a) ==
    /\ Called("check_conflicts", a)
    /\ \E t \in TargetBranches, ran \in [1..3 -> BOOLEAN] : check_conflicts(a, t, ran)
CreateStep(a, b) ==
    /\ Called("create_agent_workspace", a)
    /\ \E ran \in [1..5 -> BOOLEAN] : create_agent_workspace(a, b, ran)
RemoveStep(a) ==
    /\ Called("remove_agent_workspace", a)
    /\ \E ran \in BOOLEAN : remove_agent_workspace(a, ran)

\* the agent is registered and its working directory exists
HasWorktree(a) ==
    a \in DOMAIN agents /\ agents[a].worktree_path \in DOMAIN worktrees

\* the head of the agent's branch in the repository of its worktree
BranchHead(a) ==
    LET w == worktrees[agents[a].worktree_path] IN branches[w.repo][w.branch]

\* C1: after any call of check_conflicts for a registered agent has returned,
\* whatever the external commands did, the agent's working directory is not
\* in an in-progress merge.
C1_NoMergeAfterCheck ==
    \A a \in AgentIds :
        (last.op = "check_conflicts" /\ last.agent_id = a /\ HasWorktree(a))
            => worktrees[agents[a].worktree_path].merge_head = NoMerge

\* C2: check_conflicts leaves no persistent side effect: the merge state of
\* the working directory is after the call what it was before it (also when
\* a merge was already in progress), and the agent's branch head, the
\* registry and the status records are unchanged.
C2_CheckHasNoSideEffects ==
    [][\A a \in AgentIds :
          (HasWorktree(a) /\ CheckConflictsStep(a)) =>
              /\ worktrees'[agents[a].worktree_path].merge_head
                    = worktrees[agents[a].worktree_path].merge_head
              /\ branches' = branches
              /\ agents' = agents
              /\ sync_files' = sync_files]_vars

\* C3: for a registered agent whose working directory exists, check_conflicts
\* returns a non-empty list whose entries name the conflicting file when the
\* agent's branch and the target branch changed the same content, and the
\* empty list when the agent's branch does not diverge from the target.
C3_ConflictsAreReported ==
    [][\A a \in AgentIds :
          (HasWorktree(a) /\ CheckConflictsStep(a)) =>
              LET h == BranchHead(a)
                  target == remote["main"]
              IN  /\ (h.own > 0 /\ target.up > h.up) =>
                        /\ last'.ret # <<>>
                        /\ \A i \in 1..Len(last'.ret) : "f" \in last'.ret[i].tags
                  /\ (h.own = 0 /\ target.up <= h.up) => last'.ret = <<>>]_vars

\* everything but the record of the last call
state == <<repo_path, sync_dir, agents, sync_files, sync_dirs, branches,
           checkout, worktrees, origin_main, remote, now>>

UpdateStep(a) ==
    /\ Called("update_agent_status", a)
    /\ \E s \in UpdateStatuses, t \in Tasks, m \in Messages, ran \in BOOLEAN :
          update_agent_status(a, s, t, m, ran)
SyncStep(a) ==
    /\ Called("sync_from_main", a)
    /\ \E ran \in [1..2 -> BOOLEAN] : sync_from_main(a, ran)
CommitStep(a) ==
    /\ Called("commit_agent_work", a)
    /\ \E ran \in [1..3 -> BOOLEAN] : commit_agent_work(a, ran)
PushStep(a) ==
    /\ Called("push_agent_work", a)
    /\ \E ran \in BOOLEAN : push_agent_work(a, ran)

\* C4 (as stated): the second of two consecutive remove_agent_workspace
\* calls for one agent_id, registered or not, raises nothing, changes no
\* state, and leaves no status file of the agent in the sync directory.
C4_SecondRemoveLeavesNoFile ==
    [][\A a \in AgentIds :
          (last.op = "remove_agent_workspace" /\ last.agent_id = a /\ RemoveStep(a)) =>
              /\ last'.error = NoError
              /\ state' = state
              /\ sync_dir # NoPath => StatusFile(a) \notin DOMAIN sync_files'[sync_dir]]_vars

\* C4 (amended): remove_agent_workspace never raises and leaves the agent
\* unregistered; called for a registered agent it leaves no status file of
\* the agent in the sync directory; called for an agent that is not
\* registered, as the second of two consecutive calls is, it changes no
\* state (a status file found in the sync directory stays).
C4_RemoveIsIdempotent ==
    [][\A a \in AgentIds :
          RemoveStep(a) =>
              /\ last'.error = NoError
              /\ a \notin DOMAIN agents'
              /\ a \in DOMAIN agents => StatusFile(a) \notin DOMAIN sync_files'[sync_dir]
              /\ a \notin DOMAIN agents => state' = state
              /\ (last.op = "remove_agent_workspace" /\ last.agent_id = a)
                    => state' = state]_vars

\* C4 witness: a second consecutive removal has returned and the sync
\* directory holds no status file of the agent
C4_Witness ==
    /\ last.op = "remove_agent_workspace" /\ last.again
    /\ last.error = NoError
    /\ sync_dir # NoPath
    /\ StatusFile(last.agent_id) \notin DOMAIN sync_files[sync_dir]

\* C5: after remove_agent_workspace has returned for a registered agent the
\* working directory is gone from the disk, the status record is deleted and
\* the registry has no entry, also when the worktree removal failed.
C5_RemoveRemovesEverything ==
    [][\A a \in AgentIds :
          (a \in DOMAIN agents /\ RemoveStep(a)) =>
              /\ agents[a].worktree_path \notin DOMAIN worktrees'
              /\ StatusFile(a) \notin DOMAIN sync_files'[sync_dir]
              /\ a \notin DOMAIN agents']_vars

\* the naming scheme and the file layout, spelled out
ExpectedBranch == [a1 |-> "agent/a1", a2 |-> "agent/a2"]
ExpectedPath   == [a1 |-> "/P/worktree_a1", a2 |-> "/P/worktree_a2"]
ExpectedFile   == [a1 |-> "a1.json", a2 |-> "a2.json"]
ExpectedDir    == [r \in Repos |-> IF r = "/P/r1" THEN "/P/r1/.agent_sync"
                                                  ELSE "/P/r2/.agent_sync"]

\* C6: after a successful create_agent_workspace, list_agents has exactly one
\* entry of the agent, with branch agent/<id>, with the path
\* <parent>/worktree_<id> that exists on disk, and with status IDLE; and the
\* file <repo>/.agent_sync/<id>.json exists and holds status "idle".
C6_CreateRegistersAndPublishes ==
    \A a \in AgentIds :
        (last.op = "create_agent_workspace" /\ last.agent_id = a /\ last.error = NoError) =>
            LET entries == {i \in 1..Len(AgentList) : AgentList[i].agent_id = a}
            IN  /\ Cardinality(entries) = 1
                /\ \A i \in entries :
                      /\ AgentList[i].branch_name = ExpectedBranch[a]
                      /\ AgentList[i].worktree_path = ExpectedPath[a]
                      /\ AgentList[i].worktree_path \in DOMAIN worktrees
                      /\ AgentList[i].status = "IDLE"
                      /\ last.ret = <<AgentList[i]>>
                /\ repo_path \in Repos
                /\ ExpectedFile[a] \in DOMAIN sync_files[ExpectedDir[repo_path]]
                /\ sync_files[ExpectedDir[repo_path]][ExpectedFile[a]].json
                /\ json_loads(sync_files[ExpectedDir[repo_path]][ExpectedFile[a]]).status = "idle"

\* C6 witness: a workspace has just been created
C6_Witness ==
    /\ last.op = "create_agent_workspace" /\ last.error = NoError
    /\ last.agent_id \in DOMAIN agents
    /\ agents[last.agent_id].worktree_path \in DOMAIN worktrees

\* C7: after a successful create_agent_workspace the branch agent/<id> exists
\* in the repository: created from the base branch if it was absent, reused
\* as it was if it existed.
C7_BranchExistsAfterCreate ==
    [][\A a \in AgentIds, b \in BaseBranches :
          (repo_path # NoPath /\ CreateStep(a, b) /\ last'.error = NoError) =>
              LET before == branches[repo_path]
                  after  == branches'[repo_path]
              IN  /\ ExpectedBranch[a] \in DOMAIN after
                  /\ ExpectedBranch[a] \notin DOMAIN before =>
                        after[ExpectedBranch[a]] = before[b]
                  /\ ExpectedBranch[a] \in DOMAIN before =>
                        after[ExpectedBranch[a]] = before[ExpectedBranch[a]]]_vars

\* C8: when the branch step of create_agent_workspace succeeded and the
\* creation of the working directory then fails, the call raises the
\* coordinator's error (InvoiceError with code DATABASE_ERROR) and the branch
\* stays in the repository.
C8_BranchLeftBehind ==
    [][\A a \in AgentIds, b \in BaseBranches, ran \in [1..5 -> BOOLEAN] :
          (/\ repo_path # NoPath
           /\ Called("create_agent_workspace", a)
           /\ ran[1]
           /\ ExpectedPath[a] \notin DOMAIN worktrees
           /\ ExpectedPath[a] \notin DOMAIN worktrees'
           /\ GitCheckoutNew(GitState, repo_path, ExpectedBranch[a], b).code = 0
           /\ create_agent_workspace(a, b, ran)) =>
              /\ last'.error = DATABASE_ERROR
              /\ ExpectedBranch[a] \in DOMAIN branches'[repo_path]
              /\ branches'[repo_path][ExpectedBranch[a]] = branches[repo_path][b]
              /\ agents' = agents /\ sync_files' = sync_files]_vars

\* C8 witness: a creation has failed with the branch in place and no
\* working directory
C8_Witness ==
    /\ last.op = "create_agent_workspace" /\ last.error = DATABASE_ERROR
    /\ repo_path # NoPath
    /\ ExpectedBranch[last.agent_id] \in DOMAIN branches[repo_path]
    /\ ExpectedPath[last.agent_id] \notin DOMAIN worktrees

\* C9: when create_agent_workspace returns successfully the shared checkout
\* is on the base branch.
C9_SharedCheckoutOnBase ==
    [][\A a \in AgentIds, b \in BaseBranches :
          (repo_path # NoPath /\ CreateStep(a, b) /\ last'.error = NoError) =>
              checkout'[repo_path] = b]_vars

\* C10 (as stated): every operation other than set_repo_path that is called
\* before set_repo_path raises CONFIGURATION_ERROR.
C10_AllRaiseBeforeConfigure ==
    [][\A a \in AgentIds :
          (/\ repo_path = NoPath
           /\ \/ \E b \in BaseBranches : CreateStep(a, b)
              \/ RemoveStep(a) \/ UpdateStep(a) \/ get_all_agent_statuses
              \/ SyncStep(a) \/ CheckConflictsStep(a) \/ CommitStep(a) \/ PushStep(a))
          => last'.error = CONFIGURATION_ERROR]_vars

\* C10 (amended): before set_repo_path, create_agent_workspace raises
\* CONFIGURATION_ERROR; the registry is empty, and the other operations do
\* not raise it: update_agent_status raises NOT_FOUND, remove_agent_workspace
\* returns, get_all_agent_statuses and check_conflicts return the empty list,
\* sync_from_main and push_agent_work return False, commit_agent_work
\* returns None; no operation changes any state.
C10_BeforeConfigure ==
    [][repo_path = NoPath =>
          /\ agents = EmptyMap
          /\ \A a \in AgentIds :
                /\ (\E b \in BaseBranches : CreateStep(a, b)) =>
                        (last'.error = CONFIGURATION_ERROR /\ state' = state)
                /\ UpdateStep(a) => (last'.error = NOT_FOUND /\ state' = state)
                /\ (RemoveStep(a) \/ get_all_agent_statuses \/ SyncStep(a)
                        \/ CheckConflictsStep(a) \/ CommitStep(a) \/ PushStep(a)) =>
                        /\ last'.error = NoError
                        /\ ~last'.flag
                        /\ last'.ret = <<>>
                        /\ state' = state]_vars

\* C10 witness: a workspace creation has been refused for want of a
\* repository path
C10_Witness ==
    /\ repo_path = NoPath
    /\ last.op = "create_agent_workspace"
    /\ last.error = CONFIGURATION_ERROR

\* the status file of agent a in the current sync directory
StatusText(a) == sync_files[sync_dir][StatusFile(a)]

C12_LastWriteWins ==
    [][\A a \in AgentIds, s \in UpdateStatuses, t \in Tasks, m \in Messages, ran \in BOOLEAN :
          (/\ Called("update_agent_status", a)
           /\ a \in DOMAIN agents
           /\ update_agent_status(a, s, t, m, ran)) =>
              LET new == sync_files'[sync_dir][StatusFile(a)]
              IN  /\ new.json
                  /\ Len(new.obj) = 1
                  /\ json_loads(new).status = AgentStatus[s]
                  /\ json_loads(new).timestamp >= agents[a].last_sync
                  /\ (StatusFile(a) \in DOMAIN sync_files[sync_dir] /\ StatusText(a).json)
                        => json_loads(new).timestamp >= json_loads(StatusText(a)).timestamp]_vars

\* C12 witness: an update to "completed" has been written at a later time
\* over the record of an earlier update
C12_Witness ==
    /\ last.op = "update_agent_status" /\ last.error = NoError
    /\ StatusText(last.agent_id).json
    /\ json_loads(StatusText(last.agent_id)).status = "completed"
    /\ json_loads(StatusText(last.agent_id)).timestamp = now
    /\ now = MaxClock

\* the records of the well-formed files of a directory
ValidRecords(dir) ==
    {json_loads(sync_files[dir][n]) : n \in {x \in DOMAIN sync_files[dir] : sync_files[dir][x].json}}

\* C13: get_all_agent_statuses never raises; whichever status files of the
\* sync directory are damaged, it returns the record of every other file,
\* once, and nothing else.
C13_CorruptionTolerated ==
    [][(/\ Called("get_all_agent_statuses", "")
        /\ sync_dir # NoPath
        /\ get_all_agent_statuses) =>
          /\ last'.error = NoError
          /\ {last'.ret[i] : i \in 1..Len(last'.ret)} = ValidRecords(sync_dir)
          /\ Len(last'.ret) = Cardinality({x \in DOMAIN sync_files[sync_dir] :
                                               sync_files[sync_dir][x].json})]_vars

\* C13 witness: the statuses were read while one file was damaged and
\* another was not, and the record of the other one was returned
C13_Witness ==
    /\ last.op = "get_all_agent_statuses" /\ sync_dir # NoPath
    /\ \E x, y \in DOMAIN sync_files[sync_dir] :
          /\ ~sync_files[sync_dir][x].json
          /\ sync_files[sync_dir][y].json
          /\ last.ret = <<json_loads(sync_files[sync_dir][y])>>

\* the working directory of a registered agent
Worktree(a) == worktrees[agents[a].worktree_path]

\* C14: sync_from_main returns True only when every command it issued
\* succeeded, the latest upstream revision was fetched and it is merged into
\* the agent's branch, with no merge left in progress.
C14_SyncTrueOnlyWhenMerged ==
    [][\A a \in AgentIds, ran \in [1..2 -> BOOLEAN] :
          (/\ Called("sync_from_main", a)
           /\ HasWorktree(a)
           /\ sync_from_main(a, ran)
           /\ last'.flag) =>
              /\ ran[1] /\ ran[2]
              /\ origin_main'[Worktree(a).repo] = remote["main"].up
              /\ branches'[Worktree(a).repo][Worktree(a).branch].up = remote["main"].up
              /\ worktrees'[agents[a].worktree_path].merge_head = NoMerge]_vars

\* C15: commit_agent_work returns None when the working directory holds
\* nothing to commit; a hash it returns is the head of the agent's branch
\* after the call; and when it returns None no commit was added to the
\* branch.
C15_CommitResult ==
    [][\A a \in AgentIds :
          (HasWorktree(a) /\ CommitStep(a)) =>
              LET w == Worktree(a)
                  head == branches'[w.repo][w.branch]
              IN  /\ (~w.dirty /\ ~w.staged /\ w.merge_head = NoMerge)
                        => last'.ret = NoHash
                  /\ last'.ret # NoHash => last'.ret = <<Line({}, head)>>
                  /\ last'.ret = NoHash => head = BranchHead(a)]_vars

\* C16: sync_from_main, check_conflicts, commit_agent_work and
\* push_agent_work never raise; when one of their commands timed out or
\* could not be started they return False, [], None and False; and
\* push_agent_work returns True only if the push exited with 0.
C16_FailuresAreFalsy ==
    [][\A a \in AgentIds :
          HasWorktree(a) =>
              /\ \A ran \in [1..2 -> BOOLEAN] :
                    (Called("sync_from_main", a) /\ sync_from_main(a, ran)) =>
                        /\ last'.error = NoError
                        /\ (\E i \in 1..2 : ~ran[i]) => ~last'.flag
              /\ \A t \in TargetBranches, ran \in [1..3 -> BOOLEAN] :
                    (Called("check_conflicts", a) /\ check_conflicts(a, t, ran)) =>
                        /\ last'.error = NoError
                        /\ (\E i \in 1..3 : ~ran[i]) => last'.ret = <<>>
              /\ \A ran \in [1..3 -> BOOLEAN] :
                    (Called("commit_agent_work", a) /\ commit_agent_work(a, ran)) =>
                        /\ last'.error = NoError
                        /\ (\E i \in 1..3 : ~ran[i]) => last'.ret = NoHash
              /\ \A ran \in BOOLEAN :
                    (Called("push_agent_work", a) /\ push_agent_work(a, ran)) =>
                        /\ last'.error = NoError
                        /\ last'.flag =>
                              /\ ran
                              /\ GitPush(GitState, agents[a].worktree_path,
                                         agents[a].branch_name).code = 0]_vars

\* C17 (as stated): update_agent_status, sync_from_main, check_conflicts,
\* commit_agent_work and push_agent_work raise NOT_FOUND when called for an
\* agent_id that is not registered.
C17_AllRaiseNotFound ==
    [][\A a \in AgentIds :
          (/\ a \notin DOMAIN agents
           /\ (UpdateStep(a) \/ SyncStep(a) \/ CheckConflictsStep(a)
                  \/ CommitStep(a) \/ PushStep(a)))
          => last'.error = NOT_FOUND]_vars

\* C17 (amended): called for an agent_id that is not registered,
\* update_agent_status raises NOT_FOUND; sync_from_main and push_agent_work
\* return False, check_conflicts returns [], commit_agent_work returns None
\* and remove_agent_workspace returns, none of them raising; no state
\* changes.
C17_UnregisteredAgent ==
    [][\A a \in AgentIds :
          a \notin DOMAIN agents =>
              /\ UpdateStep(a) => (last'.error = NOT_FOUND /\ state' = state)
              /\ (SyncStep(a) \/ PushStep(a) \/ CheckConflictsStep(a)
                     \/ CommitStep(a) \/ RemoveStep(a)) =>
                    /\ last'.error = NoError
                    /\ ~last'.flag
                    /\ last'.ret = <<>>
                    /\ state' = state]_vars

\* C17 witness: with the repository configured, sync_from_main has returned
\* False for an agent that is not registered
C17_Witness ==
    /\ repo_path # NoPath
    /\ last.op = "sync_from_main"
    /\ last.agent_id \notin DOMAIN agents
    /\ last.error = NoError /\ ~last.flag

\* the commands the coordinator issues in the shared checkout and in a
\* working directory
RepoCommands ==
    {<<"checkout", "-b", BranchName(a), b>> : a \in AgentIds, b \in BaseBranches}
    \cup {<<"checkout", b>> : b \in {BranchName(a) : a \in AgentIds} \cup BaseBranches}
    \cup {<<"worktree", "add", ExpectedPath[a], BranchName(a)>> : a \in AgentIds}
    \cup {<<"worktree", "remove", ExpectedPath[a], "--force">> : a \in AgentIds}
    \cup {<<"rev-parse", "HEAD">>}
WorktreeCommands ==
    {<<"rev-parse", "HEAD">>, <<"fetch", "origin">>, <<"merge", "origin/main">>,
     <<"merge", "--no-commit", "--no-ff", "origin/main">>, <<"merge", "--abort">>,
     <<"add", "-A">>, <<"commit", "-m", "[Agent] message">>}
    \cup {<<"push", "-u", "origin", BranchName(a)>> : a \in AgentIds}

\* the triple (returncode, stdout, stderr) of a result
IsTriple(r) ==
    /\ r.code \in -1..255
    /\ DOMAIN r.out = 1..Len(r.out)
    /\ DOMAIN r.err = 1..Len(r.err)
\* the sentinel of a command that timed out or could not be started
IsSentinel(r) ==
    /\ r.code < 0
    /\ r.out = <<>>
    /\ Len(r.err) = 1 /\ r.err[1].detail # ""

\* C18: _run_git has a result for every command the coordinator issues, in
\* every state the repository gets into: a triple (returncode, stdout,
\* stderr), which is the sentinel (negative code, empty stdout, a reason on
\* stderr) with the repository untouched when the command timed out or
\* could not be started (a working directory that is gone included).
C18_ExecutorNeverThrows ==
    /\ \A cwd \in Repos, args \in RepoCommands, ran \in BOOLEAN :
          LET r == _run_git(GitState, args, cwd, ran)
          IN  /\ IsTriple(r)
              /\ ~ran => (IsSentinel(r) /\ r.g = GitState)
    /\ \A a \in AgentIds, args \in WorktreeCommands, ran \in BOOLEAN :
          LET r == _run_git(GitState, args, ExpectedPath[a], ran)
          IN  /\ IsTriple(r)
              /\ (~ran \/ ExpectedPath[a] \notin DOMAIN worktrees)
                    => (IsSentinel(r) /\ r.g = GitState)

\* C18 witness: a workspace creation has failed although git would add the
\* working directory: the command that was to add it returned the sentinel
C18_Witness ==
    /\ last.op = "create_agent_workspace" /\ last.error = DATABASE_ERROR
    /\ repo_path # NoPath
    /\ GitWorktreeAdd(GitState, repo_path, ExpectedPath[last.agent_id],
                      ExpectedBranch[last.agent_id]).code = 0
    /\ IsSentinel(_run_git(GitState, <<"worktree", "add", ExpectedPath[last.agent_id],
                                       ExpectedBranch[last.agent_id]>>, repo_path, FALSE))

\* an operation has been called for agent a
AgentStep(a) ==
    \/ \E b \in BaseBranches : CreateStep(a, b)
    \/ RemoveStep(a) \/ UpdateStep(a) \/ SyncStep(a) \/ CheckConflictsStep(a)
    \/ CommitStep(a) \/ PushStep(a)

\* what belongs to agent b: its registry entry, its status file and the
\* status records that name it in every sync directory, its branch in every
\* repository, its working directory
Belongings(b, ag, files, br, wt) ==
    <<IF b \in DOMAIN ag THEN <<ag[b]>> ELSE <<>>,
      [d \in SyncDirs |-> IF ExpectedFile[b] \in DOMAIN files[d]
                          THEN <<files[d][ExpectedFile[b]]>> ELSE <<>>],
      [d \in SyncDirs |-> {<<n, files[d][n]>> :
                              n \in {x \in DOMAIN files[d] :
                                        /\ files[d][x].json
                                        /\ json_loads(files[d][x]).agent_id = b}}],
      [r \in Repos |-> IF ExpectedBranch[b] \in DOMAIN br[r]
                       THEN <<br[r][ExpectedBranch[b]]>> ELSE <<>>],
      IF ExpectedPath[b] \in DOMAIN wt THEN <<wt[ExpectedPath[b]]>> ELSE <<>>>>

C20_BranchKept ==
    [][\A a \in AgentIds :
          /\ RemoveStep(a) => branches' = branches
          /\ \A b \in BaseBranches :
                (/\ repo_path # NoPath
                 /\ CreateStep(a, b)
                 /\ ExpectedBranch[a] \in DOMAIN branches[repo_path]) =>
                    /\ ExpectedBranch[a] \in DOMAIN branches'[repo_path]
                    /\ branches'[repo_path][ExpectedBranch[a]]
                          = branches[repo_path][ExpectedBranch[a]]
                    /\ last'.error = NoError =>
                          worktrees'[ExpectedPath[a]].branch = ExpectedBranch[a]]_vars

\* C20 witness: the workspace of an agent has been removed, its working
\* directory is gone and its branch is in the repository
C20_Witness ==
    /\ last.op = "remove_agent_workspace"
    /\ repo_path # NoPath
    /\ last.agent_id \notin DOMAIN agents
    /\ ExpectedPath[last.agent_id] \notin DOMAIN worktrees
    /\ ExpectedBranch[last.agent_id] \in DOMAIN branches[repo_path]


\* ------------------------------------------------------ lock manager claims
\* where a worker is: outside every block, or the position of its innermost
\* block
Pc(w) == IF frames[w] = <<>> THEN "idle" ELSE Top(w).pc

\* the worker is inside the body of an `async with acquire(n)` block
InBody(w, n) ==
    \E i \in DOMAIN frames[w] : frames[w][i] = [name |-> n, pc |-> "body"]

\* the resource name the innermost block of a worker is about
Wanted(w) == IF frames[w] = <<>> THEN "" ELSE Top(w).name

\* C21: for every resource name, at most one task is inside the body of
\* `async with acquire(name)`, in every reachable state, the states after
\* another task's acquire of the name has timed out included.
C21_MutualExclusion ==
    \A n \in Resources : \A v, w \in Workers :
        (InBody(v, n) /\ InBody(w, n)) => v = w

\* C22: is_locked(name) returns True exactly when some task is inside the
\* body of `async with acquire(name)`: False before any acquisition, True
\* while a body runs, False once it has exited, normally or by an exception.
C22_HeldWhileInBody ==
    [][\A w \in Workers, n \in Resources :
          (outcome'.op = "is_locked" /\ is_locked(w, n)) =>
              (outcome'.ret <=> \E v \in Workers : InBody(v, n))]_vars

\* C23: an acquire that waits for a lock another task holds, and whose
\* timeout passes, raises InvoiceError with code TIMEOUT_ERROR and never
\* enters its body: while the lock is held a waiter can only go on waiting
\* or time out, and a timed-out acquire can only end with that error.
C23_TimeoutRaises ==
    [][\A w \in Workers :
          /\ (/\ Pc(w) = "waiting"
              /\ _locks[Wanted(w)].locked
              /\ frames'[w] # frames[w]) => frames'[w] = At(w, "timed_out")[w]
          /\ (/\ Pc(w) = "timed_out"
              /\ frames'[w] # frames[w]) =>
                 /\ frames'[w] = Leave(w)[w]
                 /\ outcome' = Outcome(w, "acquire", Wanted(w), "InvoiceError",
                                       TIMEOUT_ERROR, FALSE, FALSE)]_vars

\* C23 witness: an acquire has ended with the timeout error, its body not
\* entered, while another task is inside the body for the same name
C23_Witness ==
    /\ outcome.op = "acquire" /\ outcome.code = TIMEOUT_ERROR /\ ~outcome.entered
    /\ \E v \in Workers \ {outcome.worker} : InBody(v, outcome.name)

\* a status update or a status read issued by the caller b is executed
StatusRequest(b) ==
    /\ running = b
    /\ \/ get_all_agent_statuses
       \/ \E s \in UpdateStatuses, t \in Tasks, m \in Messages, ran \in BOOLEAN :
             update_agent_status(b, s, t, m, ran)

\* C24: while the operation of one caller is in progress on a configured
\* coordinator (its task is executing, which is where it waits for its git
\* commands), a status update or a status read of another caller can be
\* executed.
C24_UnrelatedWorkProceeds ==
    \A a \in AgentIds :
        (running = a /\ repo_path # NoPath) =>
            \A b \in AgentIds \ {a} : ENABLED StatusRequest(b)

\* a call of one of the operations that work in the worktree or only read
ReadOnlyStep(a) ==
    \/ CommitStep(a) \/ PushStep(a) \/ CheckConflictsStep(a)
    \/ (Called("get_all_agent_statuses", "") /\ get_all_agent_statuses)
    \/ (Called("list_agents", "") /\ list_agents)

\* C25: commit_agent_work, push_agent_work, check_conflicts,
\* get_all_agent_statuses and list_agents leave the registry and every status
\* file as they were; a registry entry appears only in a
\* create_agent_workspace of its agent, disappears only in a
\* remove_agent_workspace of its agent, and is different after a step only if
\* the step is a create_agent_workspace (a new entry in its place), an
\* update_agent_status or a sync_from_main of its agent.
C25_RegistryFrame ==
    [][\A a \in AgentIds :
          /\ ReadOnlyStep(a) => (agents' = agents /\ sync_files' = sync_files)
          /\ (a \notin DOMAIN agents /\ a \in DOMAIN agents') =>
                 \E b \in BaseBranches : CreateStep(a, b)
          /\ (a \in DOMAIN agents /\ a \notin DOMAIN agents') => RemoveStep(a)
          /\ (/\ a \in DOMAIN agents /\ a \in DOMAIN agents'
              /\ agents'[a] # agents[a]) =>
                 \/ \E b \in BaseBranches : CreateStep(a, b)
                 \/ UpdateStep(a)
                 \/ SyncStep(a)]_vars

\* C25 witness: commit_agent_work has returned the hash of a new commit and
\* the agent's status record still shows the last_commit it showed before
C25_Witness ==
    /\ last.op = "commit_agent_work" /\ last.ret # NoHash
    /\ HasWorktree(last.agent_id)
    /\ sync_dir # NoPath
    /\ StatusFile(last.agent_id) \in DOMAIN sync_files[sync_dir]
    /\ json_loads(StatusText(last.agent_id)).last_commit # last.ret

\* C26: an acquire that times out while another task is inside the body for
\* the same name leaves the lock locked, at the timeout and when the error
\* leaves acquire.
C26_TimeoutKeepsLock ==
    [][\A w \in Workers :
          (/\ Pc(w) \in {"waiting", "timed_out"}
           /\ \E v \in Workers \ {w} : InBody(v, Wanted(w))
           /\ acquire_timeout(w) \/ acquire_unwind(w)) =>
              _locks'[Wanted(w)].locked]_vars

\* C27: a sync_from_main that is called with no merge in progress and
\* returns False leaves no merge in progress, the agent's working directory
\* as it was, and the agent's branch at the revision it had.
C27_FailedSyncIsClean ==
    [][\A a \in AgentIds :
          (/\ HasWorktree(a)
           /\ Worktree(a).merge_head = NoMerge
           /\ SyncStep(a)
           /\ ~last'.flag) =>
              /\ worktrees'[agents[a].worktree_path].merge_head = NoMerge
              /\ worktrees'[agents[a].worktree_path] = Worktree(a)
              /\ branches'[Worktree(a).repo][Worktree(a).branch] = BranchHead(a)]_vars

\* C28: every registered agent has a status file in the sync directory that
\* is configured now, and the file holds a record with the status and the
\* branch of the registry entry.
C28_RegistryMatchesStore ==
    \A a \in DOMAIN agents :
        /\ sync_dir # NoPath
        /\ StatusFile(a) \in DOMAIN sync_files[sync_dir]
        /\ StatusText(a).json
        /\ json_loads(StatusText(a)).status = AgentStatus[agents[a].status]
        /\ json_loads(StatusText(a)).branch = agents[a].branch_name

\* C29: a create_agent_workspace that raises leaves the registry and every
\* status file as they were.
C29_FailedCreateChangesNothing ==
    [][\A a \in AgentIds, b \in BaseBranches :
          (CreateStep(a, b) /\ last'.error # NoError) =>
              (agents' = agents /\ sync_files' = sync_files)]_vars

\* C30: every acquire that has to wait completes: it enters its body or it
\* leaves with the timeout error.
C30_AcquireCompletes ==
    \A w \in Workers :
        (Pc(w) \in {"waiting", "timed_out"}) ~> (Pc(w) \notin {"waiting", "timed_out"})

\* C30 witness: two tasks have taken two resource names in opposite orders
\* and each waits for the name the other is holding
C30_Witness ==
    /\ frames["w1"] = <<[name |-> "x", pc |-> "body"], [name |-> "y", pc |-> "waiting"]>>
    /\ frames["w2"] = <<[name |-> "y", pc |-> "body"], [name |-> "x", pc |-> "waiting"]>>

====
